---- MODULE Spec2Model ----
(***************************************************************************)
(* A model of sirbot.core.SirBot (src/sirbot/core.py): construction,       *)
(* startup, the incoming-queue reader, the per-message dispatch futures    *)
(* and the cleanup of the background tasks, run on one asyncio event loop. *)
(* The event loop is modelled by its FIFO queue of ready callbacks         *)
(* (`ready`): call_soon appends, the loop runs the head.  What the outside *)
(* world does (a client receiving data, a connection failing, a handler    *)
(* finishing) is a nondeterministic action.                                *)
(***************************************************************************)
EXTENDS Integers, Sequences, FiniteSets, TLC

\* ------------------------------------------------------------- bounds
MaxPush == 2        \* messages the clients push in one run

\* ------------------------------------------------------------- inputs
\* Plugin modules a configuration may name.  The last one cannot be imported.
Modules == {"plug.slack", "plug.irc", "plug.incoming", "does.not.exist"}

\* The name under which a plugin's `clients` hook returns its client.
ClientNameOf(m) ==
    CASE m = "plug.slack" -> "slack"
      [] m = "plug.irc" -> "irc"
      [] m = "plug.incoming" -> "incoming"
      [] OTHER -> "none"

ClientNames == {"slack", "irc", "incoming"}

Range(s) == {s[i] : i \in 1..Len(s)}

\* The payload of the k-th message pushed.
PayloadOf(k) == IF k % 2 = 1 THEN "hello" ELSE "world"

\* The core.plugins lists tried: no plugin, one client, the client whose
\* name is the reader's, two clients, and lists naming the module that cannot
\* be imported (first, and after a module that can).
PluginLists ==
    {<<>>, <<"plug.slack">>, <<"plug.incoming">>, <<"plug.slack", "plug.irc">>,
     <<"does.not.exist">>, <<"plug.slack", "does.not.exist">>,
     <<"does.not.exist", "plug.irc">>}

\* A configuration: whether it has a 'core' section, whether that section has
\* a 'plugins' key, the plugin list, and the client names that have a section
\* of their own ('slack' has one, the other clients have none).  The empty
\* configuration {} has no 'core' section.
EmptyConfig == [core |-> FALSE, hasPlugins |-> FALSE, plugins |-> <<>>, sections |-> {}]

ConfigWith(p) ==
    [core |-> TRUE, hasPlugins |-> TRUE, plugins |-> p, sections |-> {"slack"}]

Configs ==
    {ConfigWith(p) : p \in PluginLists}
    \cup {[core |-> TRUE, hasPlugins |-> FALSE, plugins |-> <<>>, sections |-> {}],
          EmptyConfig}

\* The configurations with at most one client.
OneClientConfigs == {c \in Configs : Len(c.plugins) <= 1}

\* What dict.get returns for a missing key, and a client's own section.
None == <<"None">>
SectionOf(n) == <<"section", n>>

\* ------------------------------------------------------------- tasks
ClientTask(n) == <<"client", n>>
LoopTask == <<"loop", "incoming">>
NoTask == <<"none", "none">>
AllTasks == {ClientTask(n) : n \in ClientNames} \cup {LoopTask}
Terminal == {"ok", "err", "cancelled"}

\* Handles of the event loop's ready queue.
Step(t) == [kind |-> "step", task |-> t, id |-> 0]
Callback(k, t) == [kind |-> k, task |-> t, id |-> 0]
DispatchStep(i) == [kind |-> "dispatch", task |-> NoTask, id |-> i]
DispatchDone(i) == [kind |-> "task_done", task |-> NoTask, id |-> i]
CleanupCall == [kind |-> "cleanup_call", task |-> NoTask, id |-> 0]
CleanupWake == [kind |-> "cleanup", task |-> NoTask, id |-> 0]

\* ------------------------------------------------------------- state
VARIABLES
    config,         \* self.config
    initResult,     \* "none" | "ok" | "ImportError": how __init__ ended
    pm,             \* plugin modules registered with the plugin manager
    hooks,          \* on_startup / on_cleanup registered with the host app
    clients,        \* self._clients, in insertion order (client names)
    configureCalls, \* the configure(config, router) calls made, in order
    noClientLogged, \* 'No client found' was logged
    started,        \* the host fired on_startup
    tasks,          \* self._tasks: sequence of <<name, task>>, insertion order
    tstate,         \* state of every background task
    mustCancel,     \* tasks with a cancellation not yet delivered
    callbacks,      \* done callbacks attached to each task, in order
    ready,          \* the event loop's FIFO of ready handles
    queue,          \* self._incoming_queue: the messages not yet pulled
    unfinished,     \* the queue's count of items not yet marked done
    pushed,         \* the (source, payload) pairs pushed so far, in order
    invoked,        \* incoming_message(source, payload) calls, in order
    dstate,         \* state of each message's dispatch future
    failed,         \* the dispatch futures that ended with an error (history)
    markDone,       \* task_done calls made by each dispatch future's observer
    taskDoneError,  \* a task_done call raised (called too many times)
    errlog,         \* logger.error calls of print_if_err, per task
    dispatchLogged, \* dispatch futures whose error the engine logged
    callbackRaised, \* tasks whose print_if_err callback raised
    cleanup,        \* "idle" | "requested" | "waiting" | "returned" | "raised"
    cleanupExc,     \* the exception _clean_background_tasks raised
    gather          \* the gather future awaited by cleanup

vars == <<config, initResult, pm, hooks, clients, configureCalls,
          noClientLogged, started, tasks, tstate, mustCancel,
          callbacks, ready, queue, unfinished, pushed, invoked, dstate, failed,
          markDone, taskDoneError, errlog, dispatchLogged, callbackRaised,
          cleanup, cleanupExc, gather>>

initVars == <<config, initResult, pm, hooks, clients, configureCalls,
              noClientLogged>>
taskVars == <<tasks, tstate, mustCancel, callbacks>>
queueVars == <<queue, unfinished, pushed>>
dispatchVars == <<invoked, dstate, failed, markDone, taskDoneError,
                  dispatchLogged>>
cleanupVars == <<cleanup, cleanupExc, gather>>

NoExc == <<"none", "none">>
CancelledError == <<"CancelledError", "none">>
ErrorOf(t) == <<"error", t[2]>>
NoGather == [children |-> {}, nfinished |-> 0, done |-> FALSE, exc |-> NoExc]

Init ==
    /\ config = EmptyConfig
    /\ initResult = "none"
    /\ pm = <<>>
    /\ hooks = FALSE
    /\ clients = <<>>
    /\ configureCalls = <<>>
    /\ noClientLogged = FALSE
    /\ started = FALSE
    /\ tasks = <<>>
    /\ tstate = [t \in AllTasks |-> "none"]
    /\ mustCancel = {}
    /\ callbacks = [t \in AllTasks |-> <<>>]
    /\ ready = <<>>
    /\ queue = <<>>
    /\ unfinished = 0
    /\ pushed = <<>>
    /\ invoked = <<>>
    /\ dstate = [i \in 1..MaxPush |-> "none"]
    /\ failed = {}
    /\ markDone = [i \in 1..MaxPush |-> 0]
    /\ taskDoneError = FALSE
    /\ errlog = [t \in AllTasks |-> 0]
    /\ dispatchLogged = {}
    /\ callbackRaised = {}
    /\ cleanup = "idle"
    /\ cleanupExc = NoExc
    /\ gather = NoGather

\* ------------------------------------------------------------- __init__
\* _import_plugins: the modules of core.plugins are imported and registered
\* in order; the first one that cannot be imported raises out of the loop.
RECURSIVE ImportUpTo(_, _)
ImportUpTo(plugins, k) ==
    IF k = 0 THEN [registered |-> <<>>, raised |-> FALSE]
    ELSE LET before == ImportUpTo(plugins, k - 1)
         IN IF before.raised THEN before
            ELSE IF plugins[k] = "does.not.exist"
                 THEN [registered |-> before.registered, raised |-> TRUE]
                 ELSE [registered |-> Append(before.registered, plugins[k]),
                       raised |-> FALSE]

\* A faulty import: a module that cannot be imported is skipped.
ImportPluginsSkipping(cfg) ==
    IF cfg.core /\ cfg.hasPlugins
    THEN [registered |-> SelectSeq(cfg.plugins, LAMBDA m : m # "does.not.exist"),
          raised |-> FALSE]
    ELSE [registered |-> <<>>, raised |-> FALSE]

ImportPlugins(cfg) ==
    IF cfg.core /\ cfg.hasPlugins
    THEN ImportUpTo(cfg.plugins, Len(cfg.plugins))
    ELSE [registered |-> <<>>, raised |-> FALSE]

\* self._pm.hook.clients(...): one (name, client) result per registered plugin.
HookClients(registered) ==
    [i \in 1..Len(registered) |-> ClientNameOf(registered[i])]

\* The first argument of client.configure: self.config.get(name).
ConfigureArg(cfg, n) == IF n \in cfg.sections THEN SectionOf(n) ELSE None

\* A faulty initialization: the first client found is not configured.
ConfigureCallsSkippingFirst(cfg, found) ==
    [i \in 1..(Len(found) - 1) |->
        [name |-> found[i + 1], arg |-> ConfigureArg(cfg, found[i + 1])]]

\* _initialize_clients: every client is stored and configured, in order.
ConfigureCallsOf(cfg, found) ==
    [i \in 1..Len(found) |-> [name |-> found[i], arg |-> ConfigureArg(cfg, found[i])]]

SirBotInitWith(configs) ==
    /\ initResult = "none"
    /\ \E cfg \in configs :
        LET imp == ImportPlugins(cfg)
            found == HookClients(imp.registered)
        IN /\ config' = cfg
           /\ pm' = imp.registered
           /\ IF imp.raised
              THEN /\ initResult' = "ImportError"
                   /\ UNCHANGED <<hooks, clients, configureCalls, noClientLogged>>
              ELSE /\ initResult' = "ok"
                   /\ hooks' = TRUE
                   /\ clients' = found
                   /\ configureCalls' = ConfigureCallsOf(cfg, found)
                   /\ noClientLogged' = (found = <<>>)
    /\ UNCHANGED <<started, taskVars, ready, queueVars, dispatchVars, errlog,
                   callbackRaised, cleanupVars>>

SirBotInit == SirBotInitWith(Configs)

\* ------------------------------------------------------------- _start
\* dict assignment d[k] = v on an insertion-ordered dict.
SetItem(d, k, v) ==
    IF \E i \in DOMAIN d : d[i][1] = k
    THEN [i \in DOMAIN d |-> IF d[i][1] = k THEN <<k, v>> ELSE d[i]]
    ELSE Append(d, <<k, v>>)

Values(d) == [i \in DOMAIN d |-> d[i][2]]

\* _connect_client: self._tasks[name] = create_task(client.connect()).
ConnectClient == [i \in 1..Len(clients) |-> <<clients[i], ClientTask(clients[i])>>]

\* A faulty startup: the reader is not entered in the task table.
TaskTableWithoutLoop == ConnectClient

\* The task table after _start: the clients' tasks, then 'incoming'.
TaskTableAfterStart == SetItem(ConnectClient, "incoming", LoopTask)

\* A faulty startup: the observer is attached to the clients' tasks only.
ObservedTasksClientsOnly(table) == Range(Values(table)) \ {LoopTask}

\* The tasks _start hands print_if_err to: self._tasks.values().
ObservedTasks(table) == Range(Values(table))

Tracked == Range(Values(tasks))

\* _start runs without suspending: the tasks are created (their first step
\* is queued with call_soon) and the observer is attached before any runs.
Start ==
    /\ hooks /\ ~started
    /\ LET spawned == Values(ConnectClient) \o <<LoopTask>>
           table == TaskTableAfterStart
       IN /\ tasks' = table
          /\ tstate' = [t \in AllTasks |->
                          IF t \in Range(spawned) THEN "created" ELSE tstate[t]]
          /\ ready' = ready \o [i \in 1..Len(spawned) |-> Step(spawned[i])]
          /\ callbacks' = [t \in AllTasks |->
                             IF t \in ObservedTasks(table)
                             THEN <<"print_if_err">> ELSE <<>>]
    /\ started' = TRUE
    /\ UNCHANGED <<initVars, mustCancel, queueVars, dispatchVars,
                   errlog, callbackRaised, cleanupVars>>

\* ------------------------------------------------------------- tasks ending
\* A task that ends has its done callbacks queued with call_soon, in the
\* order they were attached.
DoneHandles(t) == [i \in 1..Len(callbacks[t]) |-> Callback(callbacks[t][i], t)]

\* ------------------------------------------------------------- clients
\* First step of a client's connect(): it runs until it waits for its backend.
RunClientStart ==
    /\ ready # <<>>
    /\ LET h == Head(ready) IN
        /\ h.kind = "step" /\ h.task # LoopTask
        /\ tstate[h.task] = "created"
        /\ tstate' = [tstate EXCEPT ![h.task] = "waiting"]
        /\ ready' = Tail(ready)
    /\ UNCHANGED <<initVars, started, tasks, mustCancel, callbacks,
                   queueVars, dispatchVars, errlog, callbackRaised, cleanupVars>>

\* The IterableQueue's put: the item is appended, counted as unfinished, and
\* a consumer waiting in get is woken.
QueuePut(q, item) == Append(q, item)

\* A connected client receives a message and pushes (name, payload).
ClientPush(n) ==
    /\ tstate[ClientTask(n)] = "waiting"
    /\ Len(pushed) < MaxPush
    /\ pushed' = Append(pushed, [src |-> n, payload |-> PayloadOf(Len(pushed) + 1)])
    /\ queue' = QueuePut(queue, [src |-> n, payload |-> PayloadOf(Len(pushed) + 1),
                                  id |-> Len(pushed) + 1])
    /\ unfinished' = unfinished + 1
    /\ IF tstate[LoopTask] = "waiting"
       THEN /\ tstate' = [tstate EXCEPT ![LoopTask] = "scheduled"]
            /\ ready' = Append(ready, Step(LoopTask))
       ELSE UNCHANGED <<tstate, ready>>
    /\ UNCHANGED <<initVars, started, tasks, mustCancel, callbacks,
                   dispatchVars, errlog, callbackRaised, cleanupVars>>

\* A client's connect() returns or raises before it was cancelled.
ClientExit(n, outcome) ==
    /\ tstate[ClientTask(n)] = "waiting"
    /\ tstate' = [tstate EXCEPT ![ClientTask(n)] = outcome]
    /\ ready' = ready \o DoneHandles(ClientTask(n))
    /\ UNCHANGED <<initVars, started, tasks, mustCancel, callbacks,
                   queueVars, dispatchVars, errlog, callbackRaised, cleanupVars>>

\* What a client's connect() may do when CancelledError reaches it: let it
\* through, return, raise something else, or catch it and go on closing its
\* connection.
CancelOutcomes == {"cancelled", "ok", "err", "closing"}

RunClientCancelled ==
    /\ ready # <<>>
    /\ LET h == Head(ready) IN
        /\ h.kind = "step" /\ h.task # LoopTask /\ h.task \in mustCancel
        /\ tstate[h.task] = "scheduled"
        /\ mustCancel' = mustCancel \ {h.task}
        /\ \E outcome \in CancelOutcomes :
            /\ tstate' = [tstate EXCEPT ![h.task] = outcome]
            /\ ready' = IF outcome \in Terminal
                        THEN Tail(ready) \o DoneHandles(h.task)
                        ELSE Tail(ready)
    /\ UNCHANGED <<initVars, started, tasks, callbacks,
                   queueVars, dispatchVars, errlog, callbackRaised, cleanupVars>>

\* A client that went on after its cancellation finishes closing.
ClientCloseDone(n, outcome) ==
    /\ tstate[ClientTask(n)] = "closing"
    /\ tstate' = [tstate EXCEPT ![ClientTask(n)] = outcome]
    /\ ready' = ready \o DoneHandles(ClientTask(n))
    /\ UNCHANGED <<initVars, started, tasks, mustCancel, callbacks,
                   queueVars, dispatchVars, errlog, callbackRaised, cleanupVars>>

\* ------------------------------------------------------------- the reader
\* The IterableQueue's get on a non-empty queue: the oldest item, at once.
QueueGet(q) == [item |-> Head(q), rest |-> Tail(q)]

\* `async for message in self._incoming_queue`: get suspends only on an empty
\* queue, so one step of the reader pulls every queued item, oldest first.
RECURSIVE PullAll(_)
PullAll(q) ==
    IF q = <<>> THEN <<>>
    ELSE <<QueueGet(q).item>> \o PullAll(QueueGet(q).rest)

\* A faulty call: the arguments in the wrong order.
DispatchCallSwapped(m) == [src |-> m.payload, payload |-> m.src, id |-> m.id]

\* The call self._dispatcher.incoming_message(message[0], message[1]).
DispatchCall(m) == [src |-> m.src, payload |-> m.payload, id |-> m.id]

\* A faulty reader: the newest pulled message is dispatched first.
ReadIncomingQueueReversed(q) ==
    [i \in 1..Len(PullAll(q)) |-> DispatchCall(PullAll(q)[Len(PullAll(q)) + 1 - i])]

\* A faulty reader: once a handler has failed, pulled messages are dropped.
ReadIncomingQueueStopsAfterFailure(q) ==
    IF failed # {} THEN <<>>
    ELSE [i \in 1..Len(PullAll(q)) |-> DispatchCall(PullAll(q)[i])]

\* A faulty reader: it awaits the dispatch futures, nothing is dispatched
\* while an earlier invocation is in flight.
ReadIncomingQueueAwaitsDispatch(q) ==
    IF \E i \in 1..MaxPush : dstate[i] \in {"created", "running"} THEN <<>>
    ELSE [i \in 1..Len(PullAll(q)) |-> DispatchCall(PullAll(q)[i])]

\* The calls one step of _read_incoming_queue makes, in order.
ReadIncomingQueue(q) == [i \in 1..Len(PullAll(q)) |-> DispatchCall(PullAll(q)[i])]

\* A step of the reader that is not cancelled: every pulled message gets a
\* dispatch future (ensure_future queues its first step) and the reader
\* waits in get again.  It does not wait for any dispatch future.
RunLoopStep ==
    /\ ready # <<>>
    /\ LET h == Head(ready)
           batch == ReadIncomingQueue(queue)
       IN
        /\ h.kind = "step" /\ h.task = LoopTask /\ LoopTask \notin mustCancel
        /\ tstate[LoopTask] \in {"created", "scheduled"}
        /\ invoked' = invoked \o batch
        /\ queue' = <<>>
        /\ dstate' = [i \in 1..MaxPush |->
                        IF \E k \in 1..Len(batch) : batch[k].id = i
                        THEN "created" ELSE dstate[i]]
        /\ ready' = Tail(ready) \o [k \in 1..Len(batch) |-> DispatchStep(batch[k].id)]
        /\ tstate' = [tstate EXCEPT ![LoopTask] = "waiting"]
    /\ UNCHANGED <<initVars, started, tasks, mustCancel, callbacks,
                   unfinished, pushed, failed, markDone, taskDoneError,
                   dispatchLogged, errlog, callbackRaised, cleanupVars>>

\* A faulty reader: CancelledError is not caught and ends the task.
LoopCancelOutcomePropagates == "cancelled"

\* How the reader's task ends when CancelledError is thrown into its get:
\* `except asyncio.CancelledError: pass`, the coroutine returns.
LoopCancelOutcome == "ok"

\* A faulty reader: on cancellation it dispatches what is left in the queue.
CancelledReaderDrains(q) == ReadIncomingQueue(q)

\* The calls the reader makes once CancelledError was thrown into it: the
\* except clause is outside the `async for`, nothing more is pulled.
CancelledReaderCalls(q) == <<>>

\* The reader resumed by a cancellation: CancelledError is caught (lines
\* 135-136) and the coroutine returns, leaving the queue as it is.
RunLoopCancelled ==
    /\ ready # <<>>
    /\ LET h == Head(ready) IN
        /\ h.kind = "step" /\ h.task = LoopTask /\ LoopTask \in mustCancel
        /\ tstate[LoopTask] = "scheduled"
        /\ tstate' = [tstate EXCEPT ![LoopTask] = LoopCancelOutcome]
        /\ invoked' = invoked \o CancelledReaderCalls(queue)
        /\ mustCancel' = mustCancel \ {LoopTask}
        /\ ready' = Tail(ready) \o DoneHandles(LoopTask)
    /\ UNCHANGED <<initVars, started, tasks, callbacks,
                   queueVars, dstate, failed, markDone, taskDoneError,
                   dispatchLogged, errlog, callbackRaised, cleanupVars>>

\* What pulling from the queue may do besides delivering items: raise.
PullOutcomes == {"items", "fault"}

\* A step of the reader in which pulling raises something other than
\* CancelledError: no except clause matches, the exception ends the task.
RunLoopFault ==
    /\ ready # <<>>
    /\ LET h == Head(ready) IN
        /\ h.kind = "step" /\ h.task = LoopTask /\ LoopTask \notin mustCancel
        /\ tstate[LoopTask] \in {"created", "scheduled"}
        /\ "fault" \in PullOutcomes
        /\ tstate' = [tstate EXCEPT ![LoopTask] = "err"]
        /\ ready' = Tail(ready) \o DoneHandles(LoopTask)
    /\ UNCHANGED <<initVars, started, tasks, mustCancel, callbacks,
                   queueVars, dispatchVars, errlog, callbackRaised, cleanupVars>>

\* ------------------------------------------------------------- dispatch futures
\* What the first step of incoming_message may do: wait for something, or end.
HandlerOutcomes == {"running", "ok", "err", "cancelled"}

\* A faulty reader: no done callback is attached to the dispatch future.
NoDispatchDoneHandles(i) == <<>>

\* The done callbacks of a dispatch future: _set_queue_task_done (line 133).
DispatchDoneHandles(i) == <<DispatchDone(i)>>

RunDispatchStep ==
    /\ ready # <<>>
    /\ LET h == Head(ready) IN
        /\ h.kind = "dispatch"
        /\ \E outcome \in HandlerOutcomes :
            /\ dstate' = [dstate EXCEPT ![h.id] = outcome]
            /\ failed' = IF outcome = "err" THEN failed \cup {h.id} ELSE failed
            /\ ready' = IF outcome \in Terminal
                        THEN Tail(ready) \o DispatchDoneHandles(h.id)
                        ELSE Tail(ready)
    /\ UNCHANGED <<initVars, started, taskVars, queueVars, invoked, markDone,
                   taskDoneError, dispatchLogged, errlog, callbackRaised,
                   cleanupVars>>

\* A handler that was waiting finishes.
HandlerFinish(i, outcome) ==
    /\ dstate[i] = "running"
    /\ dstate' = [dstate EXCEPT ![i] = outcome]
    /\ failed' = IF outcome = "err" THEN failed \cup {i} ELSE failed
    /\ ready' = ready \o DispatchDoneHandles(i)
    /\ UNCHANGED <<initVars, started, taskVars, queueVars, invoked, markDone,
                   taskDoneError, dispatchLogged, errlog, callbackRaised,
                   cleanupVars>>

\* Whether _set_queue_task_done(*_) logs its future's error: it ignores its
\* arguments and only calls task_done.
SetQueueTaskDoneLogs(st) == FALSE

\* _set_queue_task_done: queue.task_done(), which raises when every item has
\* been marked done already.  Nothing refers to the future once its callback
\* has run: it is released.
RunSetQueueTaskDone ==
    /\ ready # <<>>
    /\ LET h == Head(ready) IN
        /\ h.kind = "task_done"
        /\ IF unfinished <= 0
           THEN /\ taskDoneError' = TRUE
                /\ UNCHANGED unfinished
           ELSE /\ unfinished' = unfinished - 1
                /\ UNCHANGED taskDoneError
        /\ markDone' = [markDone EXCEPT ![h.id] = @ + 1]
        /\ dispatchLogged' = IF SetQueueTaskDoneLogs(dstate[h.id])
                             THEN dispatchLogged \cup {h.id}
                             ELSE dispatchLogged
        /\ dstate' = [dstate EXCEPT ![h.id] = "released"]
        /\ ready' = Tail(ready)
    /\ UNCHANGED <<initVars, started, taskVars, queue, pushed, invoked, failed,
                   errlog, callbackRaised, cleanupVars>>

\* ------------------------------------------------------------- print_if_err
\* f.exception() raises CancelledError for a cancelled task, returns the
\* exception of a failed one and None otherwise.
PrintIfErrRaises(st) == st = "cancelled"
\* A faulty observer: the test of f.exception() is inverted.
PrintIfErrLogsInverted(st) == st # "err"
PrintIfErrLogs(st) == st = "err"

RunPrintIfErr ==
    /\ ready # <<>>
    /\ LET h == Head(ready) IN
        /\ h.kind = "print_if_err"
        /\ callbackRaised' = IF PrintIfErrRaises(tstate[h.task])
                             THEN callbackRaised \cup {h.task}
                             ELSE callbackRaised
        /\ errlog' = IF ~PrintIfErrRaises(tstate[h.task])
                        /\ PrintIfErrLogs(tstate[h.task])
                     THEN [errlog EXCEPT ![h.task] = @ + 1]
                     ELSE errlog
        /\ ready' = Tail(ready)
    /\ UNCHANGED <<initVars, started, taskVars, queueVars, dispatchVars,
                   cleanupVars>>

\* ------------------------------------------------------------- cleanup
Live == {"created", "scheduled", "waiting", "closing"}

\* A faulty cleanup: the dispatch futures in flight are cancelled too.
DispatchCancelledByCleanup(st) ==
    IF st \in {"created", "running"} THEN "cancelled" ELSE st

\* What the cancel loop of _clean_background_tasks does to a dispatch future:
\* nothing, the futures of line 130 are not values of self._tasks.
DispatchAfterCleanupCancel(st) == st

\* The host fires on_cleanup: as everything the host does after startup, the
\* call runs in a later iteration of the event loop (web.run_app serves
\* between the two), after the handles that are ready by then.
HostCleanup ==
    /\ started /\ cleanup = "idle"
    /\ cleanup' = "requested"
    /\ ready' = Append(ready, CleanupCall)
    /\ UNCHANGED <<initVars, started, taskVars, queueVars, dispatchVars, errlog,
                   callbackRaised, cleanupExc, gather>>

\* _clean_background_tasks up to its await: task.cancel() for every value of
\* the task table (a task waiting on a future is woken with CancelledError,
\* one whose step is already queued gets it at that step, a finished one is
\* left alone), then gather(*values): a done callback on every child, queued
\* at once for the children that are already done.
CleanBackgroundTasks ==
    /\ ready # <<>>
    /\ Head(ready).kind = "cleanup_call"
    /\ LET vals == Values(tasks)
           IsWaiting(t) == tstate[t] = "waiting"
           IsDone(t) == tstate[t] \in Terminal
           hit == {t \in Range(vals) : tstate[t] \in Live}
       IN
        /\ mustCancel' = mustCancel \cup hit
        /\ tstate' = [t \in AllTasks |->
                        IF t \in Range(vals) /\ IsWaiting(t)
                        THEN "scheduled" ELSE tstate[t]]
        /\ callbacks' = [t \in AllTasks |->
                           IF t \in Range(vals) /\ ~IsDone(t)
                           THEN Append(callbacks[t], "gather")
                           ELSE callbacks[t]]
        /\ ready' = Tail(ready)
                    \o [i \in 1..Len(SelectSeq(vals, IsWaiting)) |->
                          Step(SelectSeq(vals, IsWaiting)[i])]
                    \o [i \in 1..Len(SelectSeq(vals, IsDone)) |->
                          Callback("gather", SelectSeq(vals, IsDone)[i])]
        /\ gather' = [children |-> Range(vals), nfinished |-> 0,
                      done |-> FALSE, exc |-> NoExc]
        /\ dstate' = [i \in 1..MaxPush |-> DispatchAfterCleanupCancel(dstate[i])]
    /\ cleanup' = "waiting"
    /\ UNCHANGED <<initVars, started, tasks, queueVars, invoked, failed,
                   markDone, taskDoneError, dispatchLogged, errlog,
                   callbackRaised, cleanupExc>>

\* gather's callback for a finished child (return_exceptions is not passed):
\* the first child that was cancelled or raised completes the gather future
\* with that exception; otherwise it completes when the last child has.
GatherChildDone(g, st, t) ==
    IF st = "cancelled"
    THEN [g EXCEPT !.done = TRUE, !.exc = CancelledError]
    ELSE IF st = "err"
    THEN [g EXCEPT !.done = TRUE, !.exc = ErrorOf(t)]
    ELSE [g EXCEPT !.nfinished = g.nfinished + 1,
                   !.done = (g.nfinished + 1 = Cardinality(g.children))]

RunGatherCallback ==
    /\ ready # <<>>
    /\ LET h == Head(ready) IN
        /\ h.kind = "gather"
        /\ IF gather.done
           THEN /\ UNCHANGED gather
                /\ ready' = Tail(ready)
           ELSE /\ gather' = GatherChildDone(gather, tstate[h.task], h.task)
                /\ ready' = IF gather'.done
                            THEN Append(Tail(ready), CleanupWake)
                            ELSE Tail(ready)
    /\ UNCHANGED <<initVars, started, taskVars, queueVars, dispatchVars, errlog,
                   callbackRaised, cleanup, cleanupExc>>

\* `await asyncio.gather(...)` resumes: _clean_background_tasks returns, or
\* raises what the gather future holds.
RunCleanupWake ==
    /\ ready # <<>>
    /\ Head(ready).kind = "cleanup"
    /\ cleanup' = IF gather.exc = NoExc THEN "returned" ELSE "raised"
    /\ cleanupExc' = gather.exc
    /\ ready' = Tail(ready)
    /\ UNCHANGED <<initVars, started, taskVars, queueVars, dispatchVars, errlog,
                   callbackRaised, gather>>

\* ------------------------------------------------------------- the system
\* The event loop runs the handle at the head of its ready queue.
RunReady ==
    \/ RunClientStart
    \/ CleanBackgroundTasks
    \/ RunClientCancelled
    \/ RunLoopStep
    \/ RunLoopCancelled
    \/ RunLoopFault
    \/ RunDispatchStep
    \/ RunSetQueueTaskDone
    \/ RunPrintIfErr
    \/ RunGatherCallback
    \/ RunCleanupWake

ExitOutcomes == {"ok", "err"}

\* What the world outside the engine does.
Environment ==
    \/ \E n \in ClientNames : ClientPush(n)
    \/ \E n \in ClientNames, o \in ExitOutcomes : ClientExit(n, o)
    \/ \E n \in ClientNames, o \in ExitOutcomes : ClientCloseDone(n, o)
    \/ \E i \in 1..MaxPush, o \in Terminal : HandlerFinish(i, o)

Next ==
    \/ SirBotInit
    \/ Start
    \/ HostCleanup
    \/ RunReady
    \/ Environment

Spec == Init /\ [][Next]_vars

\* The engine with at most one client, on an event loop that never stops
\* running a ready handle.
NextOneClient ==
    \/ SirBotInitWith(OneClientConfigs)
    \/ Start
    \/ HostCleanup
    \/ RunReady
    \/ Environment

FairSpec == Init /\ [][NextOneClient]_vars /\ WF_vars(RunReady)

\* ------------------------------------------------------------- properties
Invoked(k) == \E i \in 1..Len(invoked) : invoked[i].id = k
Queued(k) == \E i \in 1..Len(queue) : queue[i].id = k
Pushed(k) == k <= Len(pushed)

\* cancel() was called on the reader, or the reader has ended.
LoopCancelled == LoopTask \in mustCancel \/ tstate[LoopTask] \in Terminal

CleanupDone == cleanup \in {"returned", "raised"}

\* The number of handles h in the ready queue.
CountReady(h) == Cardinality({i \in 1..Len(ready) : ready[i] = h})

\* C1: the messages of any one source are pulled, and their dispatch
\* invocations started, in the order that source pushed them: the
\* invocations of one source are in push order, and no message of a source
\* is invoked while an older one of that source is still queued.
C1_PerSourceFifo ==
    /\ \A i, j \in 1..Len(invoked) :
          (i < j /\ invoked[i].src = invoked[j].src)
              => invoked[i].id < invoked[j].id
    /\ \A i \in 1..Len(invoked), k \in 1..Len(queue) :
          invoked[i].src = queue[k].src => invoked[i].id < queue[k].id
    /\ \A i \in 1..Len(invoked) :
          /\ Pushed(invoked[i].id)
          /\ pushed[invoked[i].id].src = invoked[i].src

\* Two producers are connected and one of them has had two messages invoked.
C1_Witness ==
    /\ Len(clients) >= 2
    /\ \E i, j \in 1..Len(invoked) :
          i < j /\ invoked[i].src = invoked[j].src

\* C2: when _clean_background_tasks has returned or raised, every task of
\* the task table is in a terminal state.
C2_AllTerminalWhenCleanupEnds ==
    CleanupDone => \A t \in Tracked : tstate[t] \in Terminal

\* C3: a dispatch invocation that raises does not stop the reader: once a
\* message's handler has failed, every later message that is pushed has its
\* dispatch started, unless the reader is cancelled.
C3_LoopSurvivesHandlerFailure ==
    \A i \in 1..MaxPush : \A j \in 1..MaxPush :
        (i < j) =>
            ((i \in failed /\ Pushed(j)) ~> (Invoked(j) \/ LoopCancelled))

\* The first message's handler failed and its item was marked done; the
\* reader, not cancelled, has started the dispatch of the second message.
C3_Witness ==
    /\ 1 \in failed /\ markDone[1] = 1
    /\ Len(pushed) = 2 /\ dstate[2] = "created"
    /\ ~LoopCancelled

\* C4: every pushed message is pulled at most once and is either still queued
\* or has exactly one dispatch invocation, whose arguments are the pushed
\* pair; no invocation is made for a pair that was not pushed; and while the
\* reader is not cancelled every pushed message is eventually invoked.
C4_Safety ==
    /\ \A i, j \in 1..Len(invoked) : i # j => invoked[i].id # invoked[j].id
    /\ \A i, j \in 1..Len(queue) : i # j => queue[i].id # queue[j].id
    /\ \A i \in 1..Len(invoked) :
          /\ Pushed(invoked[i].id)
          /\ pushed[invoked[i].id] =
                [src |-> invoked[i].src, payload |-> invoked[i].payload]
    /\ \A k \in 1..Len(pushed) : Queued(k) # Invoked(k)

C4_ExactlyOneDispatch ==
    /\ []C4_Safety
    /\ \A k \in 1..MaxPush : Pushed(k) ~> (Invoked(k) \/ LoopCancelled)

\* Two messages were pushed and both have been invoked, the queue is empty.
C4_Witness ==
    /\ Len(pushed) = 2 /\ Len(invoked) = 2 /\ queue = <<>>
    /\ invoked[1].payload = "hello" /\ invoked[2].payload = "world"

RECURSIVE SumUpTo(_, _)
SumUpTo(f, n) == IF n = 0 THEN 0 ELSE f[n] + SumUpTo(f, n - 1)

MarkDoneCalls == SumUpTo(markDone, MaxPush)

\* C5: task_done is called exactly once for every pulled item, by the done
\* callback of its dispatch future, however the invocation ended: a finished
\* invocation has exactly one such callback pending and no call made yet, a
\* call is made only by that callback, and the calls never outnumber the
\* pulled items (task_done never raises).
C5_MarkDoneOncePerPulledItem ==
    /\ ~taskDoneError
    /\ \A i \in 1..MaxPush :
          /\ markDone[i] <= 1
          /\ (markDone[i] = 1) <=> (dstate[i] = "released")
          /\ CountReady(DispatchDone(i)) = IF dstate[i] \in Terminal THEN 1 ELSE 0
          /\ (dstate[i] # "none") <=> Invoked(i)
    /\ MarkDoneCalls <= Len(invoked)
    /\ unfinished = Len(pushed) - MarkDoneCalls

\* An item whose handler raised has been marked done, and the callback of
\* another item, whose handler was cancelled, is pending.
C5_Witness ==
    /\ \E i \in failed : markDone[i] = 1
    /\ \E i \in 1..MaxPush : dstate[i] = "cancelled"

\* C6: the completion observer of a dispatch invocation that raised has
\* logged the error once it has run.
C6_ObserverLogsDispatchError ==
    \A i \in failed : markDone[i] = 1 => i \in dispatchLogged

\* The empty configuration a missing section would degrade to.
EmptySection == <<"{}">>

\* C7: a client whose name has no section in the configuration is configured
\* with an empty configuration, not with None.
C7_AbsentSectionConfiguredEmpty ==
    \A k \in 1..Len(configureCalls) :
        configureCalls[k].name \notin config.sections
            => configureCalls[k].arg = EmptySection

\* C8: a task of the task table that ended with an exception other than
\* cancellation is logged exactly once by print_if_err: its callback is
\* pending exactly once and nothing is logged yet, or it has run and logged
\* once; nothing is logged for a task that did not end with an error.
C8_TaskErrorLoggedOnce ==
    \A t \in Tracked :
        /\ errlog[t] <= 1
        /\ errlog[t] = 1 => tstate[t] = "err"
        /\ tstate[t] = "err"
              => errlog[t] + CountReady(Callback("print_if_err", t)) = 1

\* A client's task failed before the cleanup and print_if_err has logged it.
C8_Witness == \E t \in Tracked : errlog[t] = 1 /\ cleanup = "idle"

\* C9: _clean_background_tasks never raises the exception a task of the task
\* table ended with.
C9_CleanupDoesNotRaiseTaskError ==
    ~(cleanup = "raised" /\ cleanupExc[1] = "error")

HasUnloadablePlugin(cfg) ==
    cfg.core /\ cfg.hasPlugins /\ "does.not.exist" \in Range(cfg.plugins)

\* C10: when a configured plugin module cannot be imported, __init__ raises
\* the import error: the host hooks are not registered (so on_startup never
\* fires), no client is stored or configured and no task is ever created.
C10_PluginLoadFailureIsFatal ==
    (initResult # "none" /\ HasUnloadablePlugin(config))
        => /\ initResult = "ImportError"
           /\ ~hooks /\ ~started
           /\ clients = <<>> /\ configureCalls = <<>>
           /\ tasks = <<>> /\ ready = <<>>
           /\ \A t \in AllTasks : tstate[t] = "none"

\* The constructor raised after it had registered an importable plugin.
C10_Witness == initResult = "ImportError" /\ pm # <<>>

\* C11: when the clients hook yields no client, __init__ completes ('No
\* client found' is only logged, the host hooks are registered) and on
\* startup the reader is spawned under the name 'incoming', the only entry
\* of the task table, with an empty client registry.
C11_NoClientStillStarts ==
    /\ noClientLogged <=> (initResult = "ok" /\ clients = <<>>)
    /\ (initResult = "ok" /\ clients = <<>>)
          => /\ hooks
             /\ started => /\ tasks = << <<"incoming", LoopTask>> >>
                           /\ tstate[LoopTask] # "none"

\* No client was found, the host started the engine and the reader waits.
C11_Witness ==
    /\ noClientLogged /\ started /\ clients = <<>>
    /\ tstate[LoopTask] = "waiting"

ConfigureCount(n) ==
    Cardinality({k \in 1..Len(configureCalls) : configureCalls[k].name = n})

\* C12: every client the clients hook returned is configured exactly once,
\* and a client's connect() is started only after its configure call: no
\* client task exists before startup, and every client task that exists
\* belongs to a client configured once.
C12_ConfiguredOnceBeforeConnect ==
    /\ \A n \in ClientNames :
          ConfigureCount(n) = IF n \in Range(clients) THEN 1 ELSE 0
    /\ \A n \in ClientNames :
          tstate[ClientTask(n)] # "none" => (started /\ ConfigureCount(n) = 1)

\* Two clients were configured and the connect() of both has started.
C12_Witness ==
    /\ Len(configureCalls) = 2
    /\ \A n \in Range(clients) : tstate[ClientTask(n)] = "waiting"

\* C13: the reader never waits for a dispatch invocation: it is suspended
\* only on an empty queue, and while an earlier invocation is still in
\* flight a later message that is pushed has its dispatch started, unless
\* the reader is cancelled or has ended.
C13_LoopDoesNotWaitForDispatch ==
    /\ [](tstate[LoopTask] = "waiting" => queue = <<>>)
    /\ \A i \in 1..MaxPush : \A j \in 1..MaxPush :
          (i < j) =>
              ((dstate[i] = "running" /\ Pushed(j))
                  ~> (Invoked(j) \/ LoopCancelled))

\* Two dispatch invocations are in flight at once and the reader goes on.
C13_Witness ==
    /\ dstate[1] = "running" /\ dstate[2] = "running"
    /\ ~LoopCancelled

\* C14: _clean_background_tasks never raises CancelledError to the host.
C14_CleanupSwallowsCancellation ==
    ~(cleanup = "raised" /\ cleanupExc = CancelledError)

\* cancel() was called on the tasks of the task table, the reader included.
CancelCalled == cleanup \in {"waiting", "returned", "raised"}

\* C15: once the reader's task was cancelled it makes no further
\* incoming_message call, whatever is in the queue or is pushed later.
C15_NoDispatchAfterCancel == [][CancelCalled => invoked' = invoked]_vars

\* The reader ended by cancellation, a pushed message is left in the queue.
C15_Witness ==
    /\ CancelCalled /\ tstate[LoopTask] = "ok"
    /\ queue # <<>> /\ Len(invoked) < Len(pushed)

\* C16: the reader's task ends a cancellation without an error: it is never
\* in the cancelled state, a cancellation delivered to it ends it normally
\* and print_if_err logs nothing for it (nor raises); a reader that ended
\* with another exception is logged once by print_if_err.
C16_LoopCancelIsNormalEnd ==
    /\ [](/\ tstate[LoopTask] # "cancelled"
          /\ LoopTask \notin callbackRaised
          /\ errlog[LoopTask] = 1 => tstate[LoopTask] = "err"
          /\ tstate[LoopTask] = "err"
                => errlog[LoopTask]
                     + CountReady(Callback("print_if_err", LoopTask)) = 1)
    /\ [][(LoopTask \in mustCancel /\ tstate'[LoopTask] \in Terminal)
             => tstate'[LoopTask] = "ok"]_vars

\* The reader was cancelled, has ended, and its observer has run silently.
C16_Witness ==
    /\ CancelCalled /\ tstate[LoopTask] = "ok"
    /\ CountReady(Callback("print_if_err", LoopTask)) = 0
    /\ errlog[LoopTask] = 0

\* C17: the dispatch futures are not values of the task table: no step of
\* the cleanup (its request, its cancel loop, its return) changes the state
\* of a dispatch future, so cleanup can return while one is executing.
C17_DispatchNotTrackedByCleanup == [][cleanup' # cleanup => dstate' = dstate]_vars

\* _clean_background_tasks has returned while a handler is still running.
C17_Witness ==
    /\ cleanup = "returned"
    /\ \E i \in 1..MaxPush : dstate[i] = "running"

\* C18: _start queues the first step of every client task, in the order of
\* the client registry, then the reader's, and attaches print_if_err to every
\* value of the task table while all of them are still unstarted; so every
\* task of the table that exists has print_if_err as its first done callback.
C18_ObserverAttachedBeforeAnyStep ==
    /\ [](\A t \in Tracked :
             tstate[t] # "none"
                => (callbacks[t] # <<>> /\ callbacks[t][1] = "print_if_err"))
    /\ [][(~started /\ started')
             => /\ ready' = [i \in 1..Len(clients) |-> Step(ClientTask(clients[i]))]
                               \o <<Step(LoopTask)>>
                /\ \A t \in Range(Values(tasks')) :
                      /\ tstate'[t] = "created"
                      /\ callbacks'[t] = <<"print_if_err">>]_vars

\* With two clients, a task of the table has ended under its observer.
C18_Witness ==
    /\ Len(clients) = 2
    /\ \E t \in Tracked : tstate[t] \in Terminal /\ callbacks[t][1] = "print_if_err"

\* C19: a client task of the task table whose connect() returned or raised
\* before any cancellation has been logged once its observer has run.
C19_EarlyClientExitLogged ==
    \A n \in Range(clients) :
        ( /\ ClientTask(n) \in Tracked
          /\ cleanup = "idle"
          /\ tstate[ClientTask(n)] \in {"ok", "err"}
          /\ CountReady(Callback("print_if_err", ClientTask(n))) = 0 )
            => errlog[ClientTask(n)] = 1

\* C20: after startup the task table has one entry per client task plus the
\* reader's, and every task startup spawned is a value of the table.
C20_EverySpawnedTaskTracked ==
    started => /\ Len(tasks) = Len(clients) + 1
               /\ \A t \in AllTasks : tstate[t] # "none" => t \in Tracked
====
